---- MODULE Spec2Model ----
(***************************************************************************)
(* Model of the defense-chatbot backend (app/crawler.py, app/main.py):     *)
(*   - DefenseCrawler._extract_key_findings  (pure, SpecExtract)           *)
(*   - the topic guardrail _is_defense_related (pure, SpecGuard)           *)
(*   - DefenseCrawler.deep_research, one call  (SpecResearch)              *)
(*   - the /chat handler with concurrent requests (Spec)                   *)
(* Strings are sequences of one-character strings; a literal phrase of a   *)
(* message is kept as one element.  A JSON object / Python dict is a       *)
(* function whose DOMAIN is the set of keys that are present.              *)
(***************************************************************************)
EXTENDS Integers, Sequences, FiniteSets, TLC

VARIABLES
    \* finding extractor, applied once to a drawn text
    analysis, findings, exPc,
    \* topic guardrail, applied once to a drawn text
    text, verdict, gPc,
    \* DefenseCrawler.api_key of the one crawler object
    api_key,
    \* per request: the frame of its deep_research call
    research,
    \* per request: the frame of the /chat handler
    chat,
    \* main.conversation_cache
    conversation_cache,
    \* number of uuid.uuid4() values drawn so far
    uuids,
    \* time.time(), in ticks
    clock,
    \* the request whose coroutine holds the event loop, or "free"
    loop_owner

(* ------------------------------ bounds -------------------------------- *)
\* longest analysis text given to the finding extractor
MaxLen == 4
\* longest text given to the topic guardrail
MaxGuardLen == 4
\* under Spec, the research provider answers "not finished yet" to at most
\* this many polls of one job (SpecResearch has no such limit)
MaxPendingPolls == 1

(* ------------------------- program constants --------------------------- *)
poll_interval == 3
poll_timeout == 300

(* ------------------------- string primitives --------------------------- *)
NL == "\n"
SP == " "
\* whitespace removed by str.strip() (within the alphabet of the model)
Whitespace == {SP, NL}
\* str.isdigit() on one character (ASCII digits)
Digits == {"0", "1", "2", "3", "4", "5", "6", "7", "8", "9"}

Min(a, b) == IF a < b THEN a ELSE b

\* s[from..], Python slice s[from-1:]
Drop(s, n) == SubSeq(s, n + 1, Len(s))
\* s[:n]
Take(s, n) == SubSeq(s, 1, Min(n, Len(s)))

RECURSIVE LStrip(_)
LStrip(s) == IF s # <<>> /\ Head(s) \in Whitespace THEN LStrip(Tail(s)) ELSE s

RECURSIVE RStrip(_)
RStrip(s) ==
    IF s # <<>> /\ s[Len(s)] \in Whitespace THEN RStrip(SubSeq(s, 1, Len(s) - 1)) ELSE s

\* str.strip()
Strip(s) == RStrip(LStrip(s))

\* str.split(sep) for a one-character separator: scans left to right, cur is
\* the piece being collected; always yields at least one piece.
RECURSIVE SplitFrom(_, _, _, _)
SplitFrom(s, sep, i, cur) ==
    IF i > Len(s) THEN <<cur>>
    ELSE IF s[i] = sep THEN <<cur>> \o SplitFrom(s, sep, i + 1, <<>>)
    ELSE SplitFrom(s, sep, i + 1, Append(cur, s[i]))

Split(s, sep) == SplitFrom(s, sep, 1, <<>>)

\* str.startswith(prefix)
StartsWith(s, prefix) ==
    Len(s) >= Len(prefix) /\ SubSeq(s, 1, Len(prefix)) = prefix

(* ---------------- DefenseCrawler._extract_key_findings ----------------- *)
\* the condition of the if at crawler.py:257-259, on the stripped line
IsPoint(line) ==
    \/ StartsWith(line, <<"-", SP>>)
    \/ StartsWith(line, <<"*", SP>>)
    \/ (Len(line) > 2 /\ line[1] \in Digits /\ line[2] = "." /\ line[3] = SP)

\* the for loop over analysis.split("\n"), from line i on; acc is findings
RECURSIVE CollectPoints(_, _, _)
CollectPoints(lines, i, acc) ==
    IF i > Len(lines) THEN acc
    ELSE LET line == Strip(lines[i])
         IN  IF IsPoint(line)
             THEN CollectPoints(lines, i + 1, Append(acc, Strip(Drop(line, 2))))
             ELSE CollectPoints(lines, i + 1, acc)

\* [s.strip() for s in analysis.split('.') if s.strip()]
RECURSIVE StripNonEmpty(_, _)
StripNonEmpty(parts, i) ==
    IF i > Len(parts) THEN <<>>
    ELSE IF Strip(parts[i]) # <<>>
         THEN <<Strip(parts[i])>> \o StripNonEmpty(parts, i + 1)
         ELSE StripNonEmpty(parts, i + 1)

Sentences(txt) == StripNonEmpty(Split(txt, "."), 1)

\* mutant: the prefix test is made on the raw line, before it is stripped
RECURSIVE CollectPointsRaw(_, _, _)
CollectPointsRaw(lines, i, acc) ==
    IF i > Len(lines) THEN acc
    ELSE IF IsPoint(lines[i])
         THEN CollectPointsRaw(lines, i + 1, Append(acc, Strip(Drop(lines[i], 2))))
         ELSE CollectPointsRaw(lines, i + 1, acc)

ExtractKeyFindingsRaw(txt) ==
    LET acc == CollectPointsRaw(Split(txt, NL), 1, <<>>)
    IN  IF acc = <<>> /\ txt # <<>>
        THEN Take(Sentences(txt), 3)
        ELSE acc

ExtractKeyFindings(txt) ==
    LET acc == CollectPoints(Split(txt, NL), 1, <<>>)
    IN  IF acc = <<>> /\ txt # <<>>
        THEN LET sentences == Sentences(txt)
             IN  SubSeq(sentences, 1, Min(3, Len(sentences)))
        ELSE acc

(* ---------------- topic guardrail (_is_defense_related) ---------------- *)
\* str.lower() on one character
LowerChar(c) == IF c = "D" THEN "d" ELSE IF c = "O" THEN "o" ELSE c

Lower(s) == [i \in 1..Len(s) |-> LowerChar(s[i])]

\* the fixed keyword list (lower case)
Keywords == {<<"d", "o", "d">>, <<"o", "x">>}

\* Python's `kw in text`: scan the start positions left to right
RECURSIVE FindFrom(_, _, _)
FindFrom(txt, kw, i) ==
    IF i + Len(kw) - 1 > Len(txt) THEN FALSE
    ELSE IF SubSeq(txt, i, i + Len(kw) - 1) = kw THEN TRUE
    ELSE FindFrom(txt, kw, i + 1)

Contains(txt, kw) == FindFrom(txt, kw, 1)

\* mutant: the text is not lower-cased before matching
IsDefenseRelatedCaseSensitive(txt) == \E kw \in Keywords : Contains(txt, kw)

IsDefenseRelated(txt) ==
    LET lowered == Lower(txt)
    IN  \E kw \in Keywords : Contains(lowered, kw)


(* ------------------------- dicts and Python values --------------------- *)
EmptyDict == <<>>

\* dict.get(k, default)
Get(d, k, default) == IF k \in DOMAIN d THEN d[k] ELSE default

\* the dicts with at most the key k, its value drawn from V
Opt(k, V) == {EmptyDict} \cup {k :> v : v \in V}

\* None where a string may stand
PyNone == "<None>"
\* None where a dict may stand
NoData == [none |-> TRUE]

\* truth value of a string or None
TruthyStr(v) == v # PyNone /\ v # ""

\* Python's `a or b` on strings
Or(a, b) == IF TruthyStr(a) THEN a ELSE b

(* -------------------- DefenseCrawler.deep_research --------------------- *)
PlaceholderKey == "your-firecrawl-api-key"
ApiKeys == {PlaceholderKey, "dummy"}

\* queries / prompts: one that holds a keyword of the guardrail, one that does not
Queries == {<<"d", "o", "d">>, <<"x">>}

\* the f-string messages of deep_research
ErrStarting(q) == <<"Error starting research on '">> \o q \o <<"'.">>
NoJobId(q) == <<"No job_id returned for research on '">> \o q \o <<"'.">>
ErrPolling(q) == <<"Error polling research on '">> \o q \o <<"'.">>
NoAnalysis(q) == <<"No analysis available for '">> \o q \o <<"'.">>
JobFailed(q) == <<"Research job failed for '">> \o q \o <<"'.">>
TimedOut(q) == <<"Polling timed out for research on '">> \o q \o <<"'.">>

\* the dict of the failure returns inside the try block
Failure(summary) == [summary |-> summary, key_findings |-> <<>>, sources |-> <<>>]

\* the dict of the two except clauses: {"error": str(e)}
ErrorDict(e) == [error |-> <<e>>]

\* _get_mock_research_data(query), the generic branch: three findings and three
\* sources built around the query
MockSource(title, q) == [title |-> title, url |-> "https://example.gov", description |-> q]

GetMockResearchData(q) ==
    [summary |-> <<"Analysis of '">> \o q \o <<"' indicates several relevant defense applications and programs.">>,
     key_findings |-> << <<"Related defense initiatives show increasing funding">>,
                         <<"Technology applications primarily focus on ">> \o q,
                         <<"International cooperation agreements exist with NATO allies on ">> \o q >>,
     sources |-> << MockSource("Defense Technology Review", q),
                    MockSource("Military Strategic Analysis", q),
                    MockSource("International Defense Cooperation Report", q) >>]

\* what the provider may send ------------------------------------------------
JobIds == {"", "abc123"}
PostBodies ==
    {s @@ i @@ j @@ d :
        s \in Opt("success", BOOLEAN),
        i \in Opt("id", JobIds),
        j \in Opt("job_id", {"", "job2"}),
        d \in Opt("data", Opt("id", {"", "data3"}))}

Statuses == {"completed", "failed", "processing"}
AnalysisTexts == {<<>>, <<"-", SP, "a">>, <<"a", ".", "b", ".">>}
SourceLists == {<<>>, <<[title |-> "T", url |-> "https://t"]>>}
PollData ==
    {st @@ fa @@ so :
        st \in Opt("status", Statuses),
        fa \in Opt("finalAnalysis", AnalysisTexts),
        so \in Opt("sources", SourceLists)}
PollBodies ==
    {s @@ d @@ st :
        s \in Opt("success", BOOLEAN),
        d \in Opt("data", PollData),
        st \in Opt("status", Statuses)}

\* outcome of an awaited HTTP call: the body of a 2xx answer, an httpx.HTTPError
\* (transport error, time-out of the call, raise_for_status) or any other
\* exception (resp.json() on a body that is not JSON)
Outcomes(bodies) ==
    {[kind |-> "ok", body |-> b] : b \in bodies}
        \cup {[kind |-> "http_error"], [kind |-> "exception"]}

\* the answers the provider gives under Spec, where requests run concurrently
ChatPostOutcomes ==
    {[kind |-> "ok", body |-> [success |-> TRUE, id |-> "abc123"]],
     [kind |-> "ok", body |-> [success |-> FALSE]],
     [kind |-> "http_error"]}
ChatPollOutcomes ==
    {[kind |-> "ok", body |-> [success |-> TRUE,
                               data |-> [status |-> "completed",
                                         finalAnalysis |-> <<"-", SP, "a">>,
                                         sources |-> <<[title |-> "T", url |-> "https://t"]>>]]],
     [kind |-> "ok", body |-> [success |-> TRUE, data |-> [status |-> "processing"]]],
     [kind |-> "ok", body |-> [success |-> TRUE, data |-> [status |-> "failed"]]],
     [kind |-> "http_error"]}

\* the frame of a deep_research call -----------------------------------------
NoResult == [no_result |-> TRUE]
IdleFrame ==
    [pc |-> "idle", query |-> <<>>, job_id |-> PyNone, elapsed |-> 0,
     posts |-> 0, gets |-> 0, result |-> NoResult, exit |-> "none",
     last_poll |-> EmptyDict, post_data |-> EmptyDict, last_answer |-> "none"]

\* a return statement: site names which one
Return(f, res, site) == [f EXCEPT !.pc = "returned", !.result = res, !.exit = site]

\* the two except clauses, crawler.py:192-197
Except(f, kind) ==
    IF kind = "http_error"
    THEN Return(f, ErrorDict("str(httpx.HTTPError)"), "http_error")
    ELSE Return(f, ErrorDict("str(Exception)"), "exception")

\* mutant: the nested data.id is not looked at
JobIdOfNoNested(post_data) ==
    Or(Get(post_data, "id", PyNone), Get(post_data, "job_id", PyNone))

\* job_id = post_data.get("id") or post_data.get("job_id") or post_data.get("data", {}).get("id")
JobIdOf(post_data) ==
    Or(Or(Get(post_data, "id", PyNone), Get(post_data, "job_id", PyNone)),
       Get(Get(post_data, "data", EmptyDict), "id", PyNone))

\* mutant: the loop test lets one more poll through
LoopTestInclusive(f) ==
    IF f.elapsed <= poll_timeout
    THEN [f EXCEPT !.pc = "polling", !.gets = @ + 1]
    ELSE Return(f, Failure(TimedOut(f.query)), "timeout")

\* while elapsed < poll_timeout: the next GET is sent, or the loop is left
LoopTest(f) ==
    IF f.elapsed < poll_timeout
    THEN [f EXCEPT !.pc = "polling", !.gets = @ + 1]
    ELSE Return(f, Failure(TimedOut(f.query)), "timeout")

\* from the entry of deep_research to its first await, crawler.py:105-126
Enter(q) ==
    LET f == [IdleFrame EXCEPT !.query = q]
    IN  IF api_key = PlaceholderKey
        THEN Return(f, GetMockResearchData(q), "mock")
        ELSE [f EXCEPT !.pc = "submitting", !.posts = @ + 1]

\* from the answer to the POST to the next await, crawler.py:127-157
\* (post_data is kept in the frame until the next answer arrives; the code
\* does not read it after crawler.py:145)
OnPost(f, o) ==
    IF o.kind # "ok" THEN Except(f, o.kind)
    ELSE LET g == [f EXCEPT !.post_data = o.body]
         IN  IF ~Get(o.body, "success", FALSE)
             THEN Return(g, Failure(ErrStarting(f.query)), "post_failure")
             ELSE IF ~TruthyStr(JobIdOf(o.body))
             THEN Return(g, Failure(NoJobId(f.query)), "no_job_id")
             ELSE LoopTest([g EXCEPT !.job_id = JobIdOf(o.body), !.elapsed = 0])

\* status = data.get("status") or poll_data.get("status")
StatusOf(poll_data) ==
    Or(Get(Get(poll_data, "data", EmptyDict), "status", PyNone),
       Get(poll_data, "status", PyNone))

\* mutant: the findings are extracted from the summary that is returned
CompletedResultFromSummary(q, data) ==
    [summary |-> Get(data, "finalAnalysis", NoAnalysis(q)),
     key_findings |-> ExtractKeyFindings(Get(data, "finalAnalysis", NoAnalysis(q))),
     sources |-> Get(data, "sources", <<>>)]

\* the dict returned for a completed job, crawler.py:172-176
CompletedResult(q, data) ==
    [summary |-> Get(data, "finalAnalysis", NoAnalysis(q)),
     key_findings |-> ExtractKeyFindings(Get(data, "finalAnalysis", <<>>)),
     sources |-> Get(data, "sources", <<>>)]

\* a poll answer after which the loop goes on
IsPending(o) ==
    /\ o.kind = "ok"
    /\ Get(o.body, "success", FALSE)
    /\ StatusOf(o.body) \notin {"completed", "failed"}

\* mutant: a poll that fails in transport is tried again after the sleep
OnPollRetrying(f0, o) ==
    LET f == [f0 EXCEPT !.post_data = EmptyDict]
    IN  IF o.kind # "ok" THEN [f EXCEPT !.pc = "sleeping"]
        ELSE LET data == Get(o.body, "data", EmptyDict)
             IN  IF ~Get(o.body, "success", FALSE)
                 THEN Return(f, Failure(ErrPolling(f.query)), "poll_failure")
                 ELSE IF StatusOf(o.body) = "completed"
                 THEN Return([f EXCEPT !.last_poll = o.body],
                             CompletedResult(f.query, data), "completed")
                 ELSE IF StatusOf(o.body) = "failed"
                 THEN Return(f, Failure(JobFailed(f.query)), "job_failed")
                 ELSE [f EXCEPT !.pc = "sleeping"]

\* from the answer to a GET to the next await, crawler.py:158-184
OnPoll(f0, o) ==
    LET f == [f0 EXCEPT !.post_data = EmptyDict]
    IN  IF o.kind # "ok" THEN Except(f, o.kind)
        ELSE LET data == Get(o.body, "data", EmptyDict)
             IN  IF ~Get(o.body, "success", FALSE)
                 THEN Return(f, Failure(ErrPolling(f.query)), "poll_failure")
                 ELSE IF StatusOf(o.body) = "completed"
                 THEN Return([f EXCEPT !.last_poll = o.body],
                             CompletedResult(f.query, data), "completed")
                 ELSE IF StatusOf(o.body) = "failed"
                 THEN Return(f, Failure(JobFailed(f.query)), "job_failed")
                 ELSE [f EXCEPT !.pc = "sleeping"]

\* what kind of answer the provider gave, as the frame records it in
\* last_answer: to the submit POST ...
PostAnswerClass(o) ==
    IF o.kind # "ok" THEN "transport_error"
    ELSE IF "success" \notin DOMAIN o.body \/ o.body.success # TRUE THEN "flag_false"
    ELSE "accepted"

\* ... and to a status GET
PollAnswerClass(o) ==
    IF o.kind # "ok" THEN "transport_error"
    ELSE IF "success" \notin DOMAIN o.body \/ o.body.success # TRUE THEN "flag_false"
    ELSE LET nested == IF "data" \in DOMAIN o.body /\ "status" \in DOMAIN o.body.data
                       THEN o.body.data.status ELSE ""
             top == IF "status" \in DOMAIN o.body THEN o.body.status ELSE ""
             status == IF nested # "" THEN nested ELSE top
         IN  IF status = "completed" THEN "completed"
             ELSE IF status = "failed" THEN "job_failed"
             ELSE "unfinished"

\* asyncio.sleep is over: elapsed += poll_interval and the loop test, 185, 152
OnSleep(f) == LoopTest([f EXCEPT !.elapsed = @ + poll_interval])

(* --------------------------- main.py: /chat ---------------------------- *)
\* the requests handled concurrently
Reqs == {"r1", "r2"}
\* the request that calls deep_research directly under SpecResearch
Caller == "r1"

\* str(uuid.uuid4()): the n-th value drawn; all differ, and differ from the
\* ids a caller supplies
Uuid4(n) == IF n = 1 THEN "uuid-1" ELSE IF n = 2 THEN "uuid-2" ELSE "uuid-3"

ConversationIds == {PyNone, "", "c1"}
ChatRequests ==
    [prompt : Queries, conversation_id : ConversationIds, include_research_data : BOOLEAN]

\* text of the first choice of the completion provider, before .strip()
ReplyTexts == {<<"y", "e", "s">>, <<SP, "n", "o", NL>>}
GenOutcomes ==
    {[kind |-> "ok", text |-> t] : t \in ReplyTexts}
        \cup {[kind |-> "openai_error"], [kind |-> "exception"]}

NoRequest == [no_request |-> TRUE]
NoResponse == [no_response |-> TRUE]
IdleChat ==
    [pc |-> "idle", request |-> NoRequest, conversation_id |-> PyNone,
     research_data |-> NoData, sources |-> <<>>, crawler_calls |-> 0,
     generator_calls |-> 0, messages |-> <<>>, generated |-> "pending",
     response |-> NoResponse]

\* truth value of Optional[dict]
TruthyDict(d) == d # NoData /\ DOMAIN d # {}

\* the second system message of get_openai_response, main.py:91-113 (the
\* parts it is rendered from)
ResearchContext(rd) ==
    [summary |-> Get(rd, "summary", <<"No summary available">>),
     key_findings |-> Get(rd, "key_findings", <<>>),
     sources_info |-> Get(rd, "sources", <<>>)]

Messages(prompt, rd) ==
    <<[role |-> "system", content |-> <<"system_message">>]>>
        \o (IF TruthyDict(rd)
            THEN <<[role |-> "system", content |-> ResearchContext(rd)]>>
            ELSE <<>>)
        \o <<[role |-> "user", content |-> prompt]>>

\* get_openai_response(prompt, research_data) up to its await, main.py:78-125
GetOpenaiResponseStart(c) ==
    [c EXCEPT !.pc = "generating", !.generator_calls = @ + 1,
              !.messages = Messages(c.request.prompt, c.research_data)]

\* mutant: a supplied id is replaced by a fresh one as well
ResolveConversationIdAlwaysFresh(req, n) == Uuid4(n + 1)

\* conversation_id = request.conversation_id or str(uuid.uuid4()), main.py:158
ResolveConversationId(req, n) ==
    IF TruthyStr(req.conversation_id) THEN req.conversation_id ELSE Uuid4(n + 1)

\* the handler from its entry to the if at main.py:166
ChatEntry(req) ==
    [IdleChat EXCEPT !.request = req,
                     !.conversation_id = ResolveConversationId(req, uuids),
                     !.research_data = NoData, !.sources = <<>>]

UuidsAfter(req) == IF TruthyStr(req.conversation_id) THEN uuids ELSE uuids + 1

\* deep_research returned f.result to the handler: main.py:169-174, 182
AfterResearch(c, f) ==
    GetOpenaiResponseStart(
        [c EXCEPT !.research_data = f.result,
                  !.sources = Get(f.result, "sources", <<>>)])

\* mutant: the exception of deep_research ends the request with a 500
AfterResearchRaisedAbort(c) ==
    [c EXCEPT !.pc = "done",
              !.response = [status_code |-> 500, detail |-> <<"str(Exception)">>]]

\* deep_research raised: the except clause at main.py:175-179, then 182
AfterResearchRaised(c) ==
    GetOpenaiResponseStart([c EXCEPT !.research_data = NoData, !.sources = <<>>])

\* the handler goes on when the deep_research call it awaits has returned
Resume(c, f) ==
    IF c.pc = "researching" /\ f.pc = "returned" THEN AfterResearch(c, f) ELSE c

\* mutant: str(e) of an exception built from keyword arguments only is empty
StrHTTPExceptionEmpty(detail) == <<>>

\* str(e) of the HTTPException raised by get_openai_response, as
\* HTTPException.__str__ renders it: "<status_code>: <detail>"
StrHTTPException(detail) == <<"500: ">> \o detail

(* ------------------------------ actions -------------------------------- *)
\* mutant: the assignment rebinds the map to one holding the new entry only
StoreEntryAlone(cache, key, entry) == key :> entry

\* conversation_cache[key] = entry, main.py:185-189
StoreEntry(cache, key, entry) == (key :> entry) @@ cache

\* mutant: the poll loop waits with a blocking sleep and keeps the event loop
SuspendSleepBlocks(r, f, c) == IF f.pc = "sleeping" THEN r ELSE "free"

\* who holds the event loop when the coroutine of request r stops at frame f
\* of deep_research and c of the handler: every wait is an await, which hands
\* the loop back
Suspend(r, f, c) ==
    IF f.pc \in {"submitting", "polling"} THEN "free"  \* await client.post / client.get, crawler.py:121, 153
    ELSE IF f.pc = "sleeping" THEN "free"              \* await asyncio.sleep, crawler.py:184
    ELSE IF c.pc = "generating" THEN "free"            \* await asyncio.to_thread, main.py:119
    ELSE "free"                                        \* the coroutine is over

\* the coroutine of request r can run: the loop is free or r holds it
Running(r) == loop_owner \in {"free", r}

\* a test or another caller awaits crawler.deep_research(q)
DirectCall(r, q) ==
    /\ Running(r)
    /\ research[r].pc = "idle" /\ chat[r].pc = "idle"
    /\ research' = [research EXCEPT ![r] = Enter(q)]
    /\ UNCHANGED <<chat, conversation_cache, uuids, clock, api_key>>
    /\ loop_owner' = Suspend(r, research'[r], chat'[r])

\* the handler awaits defense_crawler.deep_research(request.prompt), main.py:169
StartResearch(r, req) ==
    /\ Running(r)
    /\ LET f == Enter(req.prompt)
           c == [ChatEntry(req) EXCEPT !.pc = "researching", !.crawler_calls = @ + 1]
       IN  /\ research' = [research EXCEPT ![r] = f]
           /\ chat' = [chat EXCEPT ![r] = Resume(c, f)]
    /\ uuids' = UuidsAfter(req)
    /\ UNCHANGED <<conversation_cache, clock, api_key>>
    /\ loop_owner' = Suspend(r, research'[r], chat'[r])

\* mutant: the flag of the request is not looked at
ChatResearchDespiteFlag(r, req) ==
    /\ chat[r].pc = "idle" /\ research[r].pc = "idle"
    /\ ~req.include_research_data
    /\ StartResearch(r, req)

\* POST /chat with include_research_data = false
ChatWithoutResearch(r, req) ==
    /\ Running(r)
    /\ chat[r].pc = "idle" /\ research[r].pc = "idle"
    /\ ~req.include_research_data
    /\ chat' = [chat EXCEPT ![r] = GetOpenaiResponseStart(ChatEntry(req))]
    /\ uuids' = UuidsAfter(req)
    /\ UNCHANGED <<research, conversation_cache, clock, api_key>>
    /\ loop_owner' = Suspend(r, research'[r], chat'[r])

\* POST /chat with include_research_data = true
ChatWithResearch(r, req) ==
    /\ chat[r].pc = "idle" /\ research[r].pc = "idle"
    /\ req.include_research_data
    /\ StartResearch(r, req)

\* POST /chat with include_research_data = true, and the deep_research call
\* raises ahead of its try block (crawler.py:103-104)
ChatResearchRaises(r, req) ==
    /\ Running(r)
    /\ chat[r].pc = "idle" /\ research[r].pc = "idle"
    /\ req.include_research_data
    /\ research' = [research EXCEPT ![r] = [IdleFrame EXCEPT !.pc = "raised", !.query = req.prompt]]
    /\ chat' = [chat EXCEPT ![r] =
                  AfterResearchRaised([ChatEntry(req) EXCEPT !.crawler_calls = @ + 1])]
    /\ uuids' = UuidsAfter(req)
    /\ UNCHANGED <<conversation_cache, clock, api_key>>
    /\ loop_owner' = Suspend(r, research'[r], chat'[r])

\* the answer to the submit POST arrives
PostResponse(r, o) ==
    /\ Running(r)
    /\ research[r].pc = "submitting"
    /\ LET f == [OnPost(research[r], o) EXCEPT !.last_answer = PostAnswerClass(o)]
       IN  /\ research' = [research EXCEPT ![r] = f]
           /\ chat' = [chat EXCEPT ![r] = Resume(chat[r], f)]
    /\ UNCHANGED <<conversation_cache, uuids, clock, api_key>>
    /\ loop_owner' = Suspend(r, research'[r], chat'[r])

\* the answer to a status GET arrives
PollResponse(r, o) ==
    /\ Running(r)
    /\ research[r].pc = "polling"
    /\ LET f == [OnPoll(research[r], o) EXCEPT !.last_answer = PollAnswerClass(o)]
       IN  /\ research' = [research EXCEPT ![r] = f]
           /\ chat' = [chat EXCEPT ![r] = Resume(chat[r], f)]
    /\ UNCHANGED <<conversation_cache, uuids, clock, api_key>>
    /\ loop_owner' = Suspend(r, research'[r], chat'[r])

\* the same, with the provider's patience bounded
BoundedPollResponse(r, o) ==
    /\ IsPending(o) => research[r].gets <= MaxPendingPolls
    /\ PollResponse(r, o)

\* asyncio.sleep(poll_interval) is over
SleepDone(r) ==
    /\ Running(r)
    /\ research[r].pc = "sleeping"
    /\ LET f == OnSleep(research[r])
       IN  /\ research' = [research EXCEPT ![r] = f]
           /\ chat' = [chat EXCEPT ![r] = Resume(chat[r], f)]
    /\ UNCHANGED <<conversation_cache, uuids, clock, api_key>>
    /\ loop_owner' = Suspend(r, research'[r], chat'[r])

\* the completion call returned: main.py:128, 184-197
GenerateReturns(r, o) ==
    /\ Running(r)
    /\ chat[r].pc = "generating"
    /\ o.kind = "ok"
    /\ LET c == chat[r]
           response_text == Strip(o.text)
       IN  /\ conversation_cache' =
                 StoreEntry(conversation_cache, c.conversation_id,
                            [last_prompt |-> c.request.prompt,
                             last_response |-> response_text,
                             timestamp |-> clock])
           /\ clock' = clock + 1
           /\ chat' = [chat EXCEPT ![r] =
                 [c EXCEPT !.pc = "done", !.generated = o.kind,
                           !.response =
                               [status_code |-> 200,
                                body |-> [response |-> response_text,
                                          conversation_id |-> c.conversation_id,
                                          research_data |-> c.research_data,
                                          sources |-> c.sources]]]]
    /\ UNCHANGED <<research, uuids, api_key>>
    /\ loop_owner' = Suspend(r, research'[r], chat'[r])

\* the completion call raised: main.py:130-135, 199-201
GenerateRaises(r, o) ==
    /\ Running(r)
    /\ chat[r].pc = "generating"
    /\ o.kind # "ok"
    /\ LET detail == IF o.kind = "openai_error"
                     THEN <<"OpenAI API error: ", "str(OpenAIError)">>
                     ELSE <<"Error generating response: ", "str(Exception)">>
       IN  chat' = [chat EXCEPT ![r] =
                 [@ EXCEPT !.pc = "done", !.generated = o.kind,
                           !.response = [status_code |-> 500,
                                         detail |-> StrHTTPException(detail)]]]
    /\ UNCHANGED <<research, conversation_cache, uuids, clock, api_key>>
    /\ loop_owner' = Suspend(r, research'[r], chat'[r])

(* ------------------- applying the two pure functions ------------------- *)
ExtractAlphabet == {"-", "*", "1", ".", SP, NL, "a"}
GuardAlphabet == {"d", "o", "D", "x"}

SeqsUpTo(S, n) == UNION {[1..k -> S] : k \in 0..n}

pureVars == <<analysis, findings, exPc, text, verdict, gPc>>
serviceVars == <<api_key, research, chat, conversation_cache, uuids, clock, loop_owner>>
vars == <<pureVars, serviceVars>>

PureIdle ==
    /\ analysis = <<>> /\ findings = <<>> /\ exPc = "unused"
    /\ text = <<>> /\ verdict = FALSE /\ gPc = "unused"

ServiceIdle ==
    /\ research = [r \in Reqs |-> IdleFrame]
    /\ chat = [r \in Reqs |-> IdleChat]
    /\ conversation_cache = EmptyDict
    /\ uuids = 0
    /\ clock = 0
    /\ loop_owner = "free"

InitExtract ==
    /\ analysis \in SeqsUpTo(ExtractAlphabet, MaxLen)
    /\ findings = <<>>
    /\ exPc = "call"
    /\ text = <<>> /\ verdict = FALSE /\ gPc = "unused"
    /\ api_key = PlaceholderKey /\ ServiceIdle

\* crawler._extract_key_findings(analysis)
CallExtract ==
    /\ exPc = "call"
    /\ findings' = ExtractKeyFindings(analysis)
    /\ exPc' = "returned"
    /\ UNCHANGED <<analysis, text, verdict, gPc, serviceVars>>

InitGuard ==
    /\ text \in SeqsUpTo(GuardAlphabet, MaxGuardLen)
    /\ verdict = FALSE
    /\ gPc = "call"
    /\ analysis = <<>> /\ findings = <<>> /\ exPc = "unused"
    /\ api_key = PlaceholderKey /\ ServiceIdle

\* crawler._is_defense_related(text)
CallGuard ==
    /\ gPc = "call"
    /\ verdict' = IsDefenseRelated(text)
    /\ gPc' = "returned"
    /\ UNCHANGED <<text, analysis, findings, exPc, serviceVars>>

\* the crawler is built with the configured key (config.py:25) or a real one
InitService ==
    /\ PureIdle
    /\ api_key \in ApiKeys
    /\ ServiceIdle

\* one deep_research call
NextResearch ==
    \/ \E q \in Queries : DirectCall(Caller, q) /\ UNCHANGED pureVars
    \/ \E o \in Outcomes(PostBodies) : PostResponse(Caller, o) /\ UNCHANGED pureVars
    \/ \E o \in Outcomes(PollBodies) : PollResponse(Caller, o) /\ UNCHANGED pureVars
    \/ SleepDone(Caller) /\ UNCHANGED pureVars

\* the /chat handler, one request per element of Reqs
Next ==
    \/ \E r \in Reqs, req \in ChatRequests : ChatWithoutResearch(r, req) /\ UNCHANGED pureVars
    \/ \E r \in Reqs, req \in ChatRequests : ChatWithResearch(r, req) /\ UNCHANGED pureVars
    \/ \E r \in Reqs, req \in ChatRequests : ChatResearchRaises(r, req) /\ UNCHANGED pureVars
    \/ \E r \in Reqs, o \in ChatPostOutcomes : PostResponse(r, o) /\ UNCHANGED pureVars
    \/ \E r \in Reqs, o \in ChatPollOutcomes : BoundedPollResponse(r, o) /\ UNCHANGED pureVars
    \/ \E r \in Reqs : SleepDone(r) /\ UNCHANGED pureVars
    \/ \E r \in Reqs, o \in GenOutcomes : GenerateReturns(r, o) /\ UNCHANGED pureVars
    \/ \E r \in Reqs, o \in GenOutcomes : GenerateRaises(r, o) /\ UNCHANGED pureVars

\* the steps of the handler of request r
Step(r) ==
    \/ \E req \in ChatRequests : ChatWithoutResearch(r, req) /\ UNCHANGED pureVars
    \/ \E req \in ChatRequests : ChatWithResearch(r, req) /\ UNCHANGED pureVars
    \/ \E req \in ChatRequests : ChatResearchRaises(r, req) /\ UNCHANGED pureVars
    \/ \E o \in ChatPostOutcomes : PostResponse(r, o) /\ UNCHANGED pureVars
    \/ \E o \in ChatPollOutcomes : BoundedPollResponse(r, o) /\ UNCHANGED pureVars
    \/ SleepDone(r) /\ UNCHANGED pureVars
    \/ \E o \in GenOutcomes : GenerateReturns(r, o) /\ UNCHANGED pureVars
    \/ \E o \in GenOutcomes : GenerateRaises(r, o) /\ UNCHANGED pureVars

SpecExtract == InitExtract /\ [][CallExtract]_vars
SpecGuard == InitGuard /\ [][CallGuard]_vars
SpecResearch == InitService /\ [][NextResearch]_vars
\* every awaited call of one deep_research call eventually completes
FairResearch == SpecResearch /\ WF_vars(NextResearch)
Spec == InitService /\ [][Next]_vars
\* request "r2" is scheduled whenever it can run and the calls it awaits
\* complete; nothing is assumed about the other request
FairChat == Spec /\ WF_vars(Step("r2"))

(* =============================== claims ================================ *)
(* ---- reference definitions used by the claims about the pure parts ---- *)
SepPos(s, sep) == {i \in 1..Len(s) : s[i] = sep}

\* position of the k-th separator; 0 before the first piece, Len+1 after the last
CutAt(s, sep, k) ==
    IF k = 0 THEN 0
    ELSE IF k = Cardinality(SepPos(s, sep)) + 1 THEN Len(s) + 1
    ELSE CHOOSE i \in SepPos(s, sep) :
             Cardinality({j \in SepPos(s, sep) : j < i}) = k - 1

\* the pieces between consecutive separators
RefPieces(s, sep) ==
    [k \in 1..(Cardinality(SepPos(s, sep)) + 1) |->
        SubSeq(s, CutAt(s, sep, k - 1) + 1, CutAt(s, sep, k) - 1)]

\* s without its leading and trailing whitespace
RefTrim(s) ==
    LET solid == {i \in 1..Len(s) : s[i] \notin Whitespace}
    IN  IF solid = {} THEN <<>>
        ELSE SubSeq(s, CHOOSE i \in solid : \A j \in solid : i <= j,
                       CHOOSE i \in solid : \A j \in solid : j <= i)

RefTrimAll(seq) == [k \in 1..Len(seq) |-> RefTrim(seq[k])]

\* starts with "- ", "* " or a single digit followed by ". "
Qualifies(line) ==
    \/ (Len(line) >= 2 /\ line[1] \in {"-", "*"} /\ line[2] = SP)
    \/ (Len(line) >= 3 /\ line[1] \in Digits /\ line[2] = "." /\ line[3] = SP)

NonEmpty(s) == Len(s) > 0

RefContents(points) ==
    [k \in 1..Len(points) |-> RefTrim(SubSeq(points[k], 3, Len(points[k])))]

RefFallback(s) ==
    LET frags == SelectSeq(RefTrimAll(RefPieces(s, ".")), NonEmpty)
    IN  IF Len(frags) <= 3 THEN frags ELSE SubSeq(frags, 1, 3)

\* the reference as the claim words it: the prefix test is made on the lines
RefFindingsOnLines(s) ==
    LET points == SelectSeq(RefPieces(s, NL), Qualifies)
    IN  IF points # <<>> THEN RefContents(points)
        ELSE IF s = <<>> THEN <<>> ELSE RefFallback(s)

\* the reference with every line trimmed before the prefix test
RefFindingsOnTrimmedLines(s) ==
    LET points == SelectSeq(RefTrimAll(RefPieces(s, NL)), Qualifies)
    IN  IF points # <<>> THEN RefContents(points)
        ELSE IF s = <<>> THEN <<>> ELSE RefFallback(s)

\* C6: the guardrail returns true exactly for the texts whose lower-cased form
\* contains a keyword of the fixed list as a substring, and false for "".
C6_GuardrailIsSubstringMatch ==
    gPc = "returned" =>
        /\ verdict =
              (\E kw \in Keywords : \E i \in 1..Len(text) :
                  /\ i + Len(kw) - 1 <= Len(text)
                  /\ \A j \in 1..Len(kw) : LowerChar(text[i + j - 1]) = kw[j])
        /\ (text = <<>> => verdict = FALSE)

C6_Witness ==
    gPc = "returned" /\ text = <<"x", "D", "o", "D">> /\ verdict = TRUE

IsResearchResult(d) == {"summary", "key_findings", "sources"} \subseteq DOMAIN d

\* the returns that report a failure
FailureExits ==
    {"post_failure", "no_job_id", "poll_failure", "job_failed", "timeout",
     "http_error", "exception"}

\* C1: every failure path of deep_research returns a result with a non-empty
\* summary and with key_findings and sources present and empty.
C1_FailureIsWellFormed ==
    \A r \in Reqs :
        (research[r].pc = "returned" /\ research[r].exit \in FailureExits) =>
            /\ IsResearchResult(research[r].result)
            /\ research[r].result.summary # <<>>
            /\ research[r].result.key_findings = <<>>
            /\ research[r].result.sources = <<>>

RefusalPrefix == <<"Sorry, I can only assist">>

\* C2: for a query the guardrail judges out of scope, deep_research sends no
\* POST and no GET and returns the refusal with empty findings and sources.
C2_OutOfScopeIsRefused ==
    \A r \in Reqs :
        (research[r].pc # "idle" /\ ~IsDefenseRelated(research[r].query)) =>
            /\ research[r].posts = 0
            /\ research[r].gets = 0
            /\ research[r].pc = "returned" =>
                  /\ IsResearchResult(research[r].result)
                  /\ StartsWith(research[r].result.summary, RefusalPrefix)
                  /\ research[r].result.key_findings = <<>>
                  /\ research[r].result.sources = <<>>

\* C3: the poll loop sends at most poll_timeout / poll_interval GETs, one per
\* poll_interval of counted time; every call returns; a call that saw only
\* unfinished polls returns the time-out result, with no findings or sources.
C3_PollLoopTerminates ==
    /\ [](\A r \in Reqs :
            /\ research[r].gets <= poll_timeout \div poll_interval
            /\ research[r].pc \in {"polling", "sleeping"} =>
                  research[r].elapsed = (research[r].gets - 1) * poll_interval
            /\ research[r].exit = "timeout" =>
                  /\ research[r].gets = poll_timeout \div poll_interval
                  /\ research[r].result = Failure(TimedOut(research[r].query)))
    /\ (research[Caller].pc # "idle" ~> research[Caller].pc = "returned")

C3_Witness ==
    /\ research[Caller].pc = "returned"
    /\ research[Caller].exit = "timeout"
    /\ research[Caller].gets = 100

\* the state of the call in the words of the specification's state machine
Phase(f) ==
    CASE f.pc = "idle" -> "NONE"
      [] f.pc = "raised" -> "RAISED"
      [] f.pc = "submitting" -> "SUBMITTING"
      [] f.pc \in {"polling", "sleeping"} -> "POLLING"
      [] f.pc = "returned" ->
            CASE f.exit \in {"completed", "mock"} -> "COMPLETED"
              [] f.exit = "timeout" -> "TIMED_OUT"
              [] f.exit \in {"post_failure", "no_job_id"} -> "SUBMIT_ERROR"
              [] f.exit \in {"poll_failure", "job_failed"} -> "FAILED"
              [] f.exit \in {"http_error", "exception"} ->
                    IF f.gets = 0 THEN "SUBMIT_ERROR" ELSE "FAILED"

TerminalPhases ==
    {"COMPLETED", "FAILED", "TIMED_OUT", "REJECTED_OUT_OF_SCOPE", "SUBMIT_ERROR"}

\* C4: a call moves SUBMITTING -> POLLING -> terminal; every terminal state
\* yields a ResearchResult; a terminal state is never left and no request is
\* sent from it.
C4_StateMachine ==
    [][\A r \in Reqs :
          LET p == Phase(research[r])
              q == Phase(research'[r])
          IN  /\ p = "SUBMITTING" => q \in {"SUBMITTING", "POLLING", "SUBMIT_ERROR"}
              /\ p = "POLLING" => q \in {"POLLING", "COMPLETED", "FAILED", "TIMED_OUT"}
              /\ p \in TerminalPhases =>
                    /\ q = p
                    /\ research'[r].posts = research[r].posts
                    /\ research'[r].gets = research[r].gets
              /\ q \in TerminalPhases => IsResearchResult(research'[r].result)]_vars

\* the data object of the poll that completed the call
CompletedData(f) == Get(f.last_poll, "data", EmptyDict)

\* C5 (as stated): on a completed poll the summary is the job's finalAnalysis,
\* key_findings the extractor applied to it, sources the job's sources list.
C5_AsStated ==
    \A r \in Reqs :
        research[r].exit = "completed" =>
            /\ "finalAnalysis" \in DOMAIN CompletedData(research[r])
            /\ research[r].result.summary = CompletedData(research[r]).finalAnalysis
            /\ research[r].result.key_findings =
                   ExtractKeyFindings(CompletedData(research[r]).finalAnalysis)
            /\ "sources" \in DOMAIN CompletedData(research[r])
            /\ research[r].result.sources = CompletedData(research[r]).sources

\* C5 (amended): on a poll with success = true and status "completed" (nested
\* status first, top level as fallback) the call returns at once; summary is
\* the finalAnalysis text, or "No analysis available for '<query>'." when the
\* data object has none; key_findings is the extractor applied to the
\* finalAnalysis text, or to the empty text when there is none; sources is the
\* returned list, or the empty list when there is none.  The number of
\* unfinished polls before it does not matter.
C5_CompletedResult ==
    \A r \in Reqs :
        research[r].exit = "completed" =>
            LET f == research[r]
                data == CompletedData(f)
                has == "finalAnalysis" \in DOMAIN data
            IN  /\ f.pc = "returned"
                /\ f.last_poll.success = TRUE
                /\ \/ ("status" \in DOMAIN data /\ data.status = "completed")
                   \/ /\ ("status" \notin DOMAIN data \/ data.status = "")
                      /\ f.last_poll.status = "completed"
                /\ DOMAIN f.result = {"summary", "key_findings", "sources"}
                /\ f.result.summary = IF has THEN data.finalAnalysis ELSE NoAnalysis(f.query)
                /\ f.result.key_findings =
                       IF has THEN RefFindingsOnTrimmedLines(data.finalAnalysis) ELSE <<>>
                /\ f.result.sources = IF "sources" \in DOMAIN data THEN data.sources ELSE <<>>

C5_Witness ==
    /\ research[Caller].exit = "completed"
    /\ research[Caller].gets = 3
    /\ "data" \notin DOMAIN research[Caller].last_poll
    /\ research[Caller].result.summary = NoAnalysis(research[Caller].query)
    /\ research[Caller].result.key_findings = <<>>

(* -------------------- claims about /chat (Spec) ------------------------ *)
\* C8: a request with include_research_data = false never calls deep_research;
\* the generator gets no research data and the response carries none.
C8_NoResearchWhenNotAsked ==
    \A r \in Reqs :
        (chat[r].pc # "idle" /\ ~chat[r].request.include_research_data) =>
            /\ chat[r].crawler_calls = 0
            /\ research[r] = IdleFrame
            /\ chat[r].research_data = NoData
            /\ chat[r].generator_calls = 1
            /\ chat[r].messages = <<[role |-> "system", content |-> <<"system_message">>],
                                    [role |-> "user", content |-> chat[r].request.prompt]>>
            /\ (chat[r].pc = "done" /\ chat[r].generated = "ok") =>
                  /\ chat[r].response.status_code = 200
                  /\ chat[r].response.body.research_data = NoData

C8_Witness ==
    \E r \in Reqs :
        /\ chat[r].pc = "done"
        /\ ~chat[r].request.include_research_data
        /\ chat[r].response.status_code = 200
        /\ chat[r].response.body.research_data = NoData

\* the request was answered with a ChatResponse
Succeeded(c) == c.pc = "done" /\ c.response.status_code = 200

\* C9 (as stated): every supplied conversation_id, whatever string it is, comes
\* back unchanged in the response.
C9_AsStated ==
    \A r \in Reqs :
        (Succeeded(chat[r]) /\ chat[r].request.conversation_id # PyNone) =>
            chat[r].response.body.conversation_id = chat[r].request.conversation_id

\* C9 (amended): a supplied non-empty conversation_id comes back unchanged; an
\* omitted or empty one is replaced by a freshly generated id that no other
\* request has and no caller supplied; the id of the response is the key of
\* the stored entry.
C9_ConversationIdRoundTrip ==
    \A r \in Reqs :
        Succeeded(chat[r]) =>
            LET supplied == chat[r].request.conversation_id
                cid == chat[r].response.body.conversation_id
            IN  /\ supplied \notin {PyNone, ""} => cid = supplied
                /\ supplied \in {PyNone, ""} =>
                      /\ cid \notin ConversationIds
                      /\ \A o \in Reqs \ {r} : chat[o].conversation_id # cid
                      /\ conversation_cache[cid].last_prompt = chat[r].request.prompt
                /\ cid = chat[r].conversation_id
                /\ cid \in DOMAIN conversation_cache

C9_Witness ==
    \E r \in Reqs, o \in Reqs :
        /\ Succeeded(chat[r]) /\ Succeeded(chat[o])
        /\ chat[r].request.conversation_id = "c1"
        /\ chat[r].response.body.conversation_id = "c1"
        /\ chat[o].request.conversation_id = ""
        /\ chat[o].response.body.conversation_id = "uuid-1"

\* C10: when the deep_research call of the handler raises, the handler goes on
\* to the generator with no research data and no sources, and answers 200 if
\* the generator succeeds.
C10_ResearchExceptionIsAbsorbed ==
    \A r \in Reqs :
        research[r].pc = "raised" =>
            /\ chat[r].pc \in {"generating", "done"}
            /\ chat[r].generator_calls = 1
            /\ chat[r].research_data = NoData
            /\ chat[r].sources = <<>>
            /\ Len(chat[r].messages) = 2
            /\ (chat[r].pc = "done") =>
                  /\ chat[r].generated # "pending"
                  /\ chat[r].generated = "ok" =>
                        /\ chat[r].response.status_code = 200
                        /\ chat[r].response.body.research_data = NoData
                        /\ chat[r].response.body.sources = <<>>

C10_Witness ==
    \E r \in Reqs :
        /\ research[r].pc = "raised"
        /\ chat[r].pc = "done"
        /\ chat[r].response.status_code = 200

\* the two bodies a /chat request may end with
IsChatResponse(resp) ==
    /\ DOMAIN resp = {"status_code", "body"}
    /\ resp.status_code = 200
    /\ DOMAIN resp.body = {"response", "conversation_id", "research_data", "sources"}

IsErrorEnvelope(resp) ==
    /\ DOMAIN resp = {"status_code", "detail"}
    /\ resp.status_code = 500
    /\ resp.detail # <<>>

\* C11: a failure of the answer generator ends the request with a 500 whose
\* detail is a non-empty message naming the failure; every finished request
\* has a ChatResponse or an error envelope as its body.
C11_GeneratorFailureIs500 ==
    \A r \in Reqs :
        chat[r].pc = "done" =>
            /\ IsChatResponse(chat[r].response) \/ IsErrorEnvelope(chat[r].response)
            /\ chat[r].generated \in {"openai_error", "exception"} =>
                  /\ IsErrorEnvelope(chat[r].response)
                  /\ \E i \in 1..Len(chat[r].response.detail) :
                        chat[r].response.detail[i] \in
                            {"OpenAI API error: ", "Error generating response: "}
            /\ chat[r].generated = "ok" => IsChatResponse(chat[r].response)

C11_Witness ==
    \E r \in Reqs :
        /\ chat[r].pc = "done"
        /\ chat[r].generated = "openai_error"
        /\ chat[r].response.status_code = 500
        /\ chat[r].response.detail = <<"500: ", "OpenAI API error: ", "str(OpenAIError)">>

(* ------------- more claims about deep_research (SpecResearch) ---------- *)
\* answers that report a failure
FailureAnswers == {"transport_error", "flag_false", "job_failed"}

\* C13: deep_research never retries.  One POST is sent, at the start; a GET
\* is sent only after an accepted submit or after the sleep that follows an
\* unfinished poll; the step that takes a transport error, a false success
\* flag or a failed job sends nothing and returns a failure result; after the
\* return nothing is sent.
C13_NoRetry ==
    [][\A r \in Reqs :
          LET f == research[r]
              g == research'[r]
          IN  /\ g.posts <= 1
              /\ g.posts > f.posts => f.pc = "idle"
              /\ g.gets > f.gets =>
                    /\ g.gets = f.gets + 1
                    /\ \/ f.pc = "submitting" /\ g.last_answer = "accepted"
                       \/ f.pc = "sleeping" /\ f.last_answer = "unfinished"
              /\ (g.pc = "sleeping" /\ f.pc # "sleeping") =>
                    f.pc = "polling" /\ g.last_answer = "unfinished"
              /\ (f.pc \in {"submitting", "polling"} /\ g # f
                    /\ g.last_answer \in FailureAnswers) =>
                    /\ g.pc = "returned"
                    /\ g.exit \in FailureExits
                    /\ g.result # NoResult
                    /\ g.posts = f.posts /\ g.gets = f.gets
              /\ f.pc = "returned" => g = f]_vars

C13_Witness ==
    /\ research[Caller].pc = "returned"
    /\ research[Caller].last_answer = "transport_error"
    /\ research[Caller].exit = "http_error"
    /\ research[Caller].posts = 1
    /\ research[Caller].gets = 2

\* the first present, non-empty value among id, job_id and data.id; "" if none
RefJobId(b) ==
    LET cands == << IF "id" \in DOMAIN b THEN b.id ELSE "",
                    IF "job_id" \in DOMAIN b THEN b.job_id ELSE "",
                    IF "data" \in DOMAIN b /\ "id" \in DOMAIN b.data THEN b.data.id ELSE "" >>
        hits == {i \in 1..3 : cands[i] # ""}
    IN  IF hits = {} THEN ""
        ELSE cands[CHOOSE i \in hits : \A j \in hits : i <= j]

\* C14: after an accepted submit the job id is the first present non-empty
\* value of id, job_id, data.id, and it stays the id of every poll; when
\* there is none the call returns a failure result (summary, no findings, no
\* sources) and sends no GET.
C14_JobIdFallback ==
    [][\A r \in Reqs :
          LET f == research[r]
              g == research'[r]
          IN  /\ (f.pc = "submitting" /\ g # f /\ g.last_answer = "accepted") =>
                    IF RefJobId(g.post_data) # ""
                    THEN /\ g.pc = "polling"
                         /\ g.job_id = RefJobId(g.post_data)
                         /\ g.gets = 1
                    ELSE /\ g.pc = "returned"
                         /\ g.exit = "no_job_id"
                         /\ g.gets = 0
                         /\ IsResearchResult(g.result)
                         /\ g.result.summary # <<>>
                         /\ g.result.key_findings = <<>>
                         /\ g.result.sources = <<>>
              /\ f.pc \in {"polling", "sleeping"} => g.job_id = f.job_id
              /\ g.gets > 0 => g.job_id \notin {"", PyNone}]_vars

C14_Witness ==
    /\ research[Caller].pc = "polling"
    /\ research[Caller].post_data = [success |-> TRUE, id |-> "", data |-> [id |-> "data3"]]
    /\ research[Caller].job_id = "data3"

(* ------------------- more claims about /chat (Spec) -------------------- *)
\* request r is suspended at one of its awaits
Waiting(r) ==
    \/ research[r].pc \in {"submitting", "polling", "sleeping"}
    \/ chat[r].pc = "generating"

\* while a request waits, any other unfinished request can take a step
C12_OthersCanStep ==
    \A r \in Reqs, o \in Reqs :
        (r # o /\ Waiting(r) /\ chat[o].pc # "done") => ENABLED Step(o)

\* C12: a request that waits between polls, or for the provider of the
\* submit, the poll or the completion, does not hold up the others: whenever
\* "r1" waits, "r2" can take its next step, and "r2" runs to completion
\* even if "r1" never takes another step.
C12_WaitingDoesNotBlock ==
    /\ []C12_OthersCanStep
    /\ Waiting("r1") ~> chat["r2"].pc = "done"

C12_Witness ==
    /\ research["r1"].pc = "sleeping"
    /\ loop_owner = "free"
    /\ chat["r2"].pc = "done"
    /\ research["r2"].gets = 2
    /\ research["r2"].exit = "completed"

\* the step in which the handler of request r gets its answer and returns 200
Answers(r) ==
    /\ chat[r].pc = "generating"
    /\ chat'[r].pc = "done"
    /\ chat'[r].response.status_code = 200

\* the step in which the handler of request r ends with an error
Fails(r) ==
    /\ chat[r].pc = "generating"
    /\ chat'[r].pc = "done"
    /\ chat'[r].response.status_code = 500

\* entry e holds the prompt and the response text of the finished request c
IsPairOf(e, c) ==
    /\ {"last_prompt", "last_response"} \subseteq DOMAIN e
    /\ e.last_prompt = c.request.prompt
    /\ e.last_response = c.response.body.response

\* every stored entry is the pair of one request that succeeded with that id
C15_EntriesAreWhole ==
    \A k \in DOMAIN conversation_cache :
        \E r \in Reqs :
            /\ chat[r].pc = "done" /\ chat[r].generated = "ok"
            /\ chat[r].conversation_id = k
            /\ IsPairOf(conversation_cache[k], chat[r])

\* C15: the conversation map changes only in the step in which a request's
\* answer has come back, and only at that request's resolved id: the entry
\* there becomes that request's prompt and response text, all other keys keep
\* their entries, no key is ever removed; a request that fails leaves the
\* whole map as it was; and every stored entry is the whole pair of a single
\* request that succeeded.
C15_MapFrameEffect ==
    /\ []C15_EntriesAreWhole
    /\ [][/\ \A r \in Reqs :
               /\ Answers(r) =>
                     /\ DOMAIN conversation_cache' =
                            DOMAIN conversation_cache \cup {chat[r].conversation_id}
                     /\ IsPairOf(conversation_cache'[chat[r].conversation_id], chat'[r])
                     /\ chat'[r].response.body.conversation_id = chat[r].conversation_id
                     /\ \A k \in DOMAIN conversation_cache \ {chat[r].conversation_id} :
                            conversation_cache'[k] = conversation_cache[k]
               /\ Fails(r) => conversation_cache' = conversation_cache
          /\ (\A r \in Reqs : ~Answers(r)) => conversation_cache' = conversation_cache
         ]_vars

C15_Witness ==
    /\ chat["r1"].pc = "done" /\ chat["r1"].generated = "ok"
    /\ chat["r2"].pc = "done" /\ chat["r2"].generated = "ok"
    /\ chat["r1"].conversation_id = "c1"
    /\ chat["r2"].conversation_id = "c1"
    /\ chat["r1"].request.prompt # chat["r2"].request.prompt
    /\ DOMAIN conversation_cache = {"c1"}
    /\ conversation_cache["c1"].timestamp = 1
    /\ IsPairOf(conversation_cache["c1"], chat["r2"])

====
